---------------------------- MODULE Spec2Model ----------------------------
(***************************************************************************)
(* A model of the food_itinerary places back end: the Express server       *)
(* (src/server.mjs), the Netlify / Vercel thin proxies (src/places.js,     *)
(* src/unnamed/part_000) and the aggregating handlers (src/places.js,      *)
(* src/api/places.js), the last with its process-wide result cache.        *)
(*                                                                         *)
(* Representation.  A JavaScript string is the sequence of its characters  *)
(* (one-character TLA+ strings); a possibly-undefined string is a record   *)
(* [def, s].  A JavaScript number is a record [nan, v] whose v counts      *)
(* thousandths (7.5 is v = 7500), so a radius in km read as v is the same   *)
(* radius in metres.  Time is in milliseconds.                             *)
(***************************************************************************)
EXTENDS Integers, Sequences, FiniteSets, TLC

VARIABLES
    now,      \* Date.now() of the process, ms
    cache,    \* _cache of src/api/places.js: cacheKey -> [ts, data]
    req,      \* the requests being handled, one record per slot
    calc,     \* the argument and the result of a pure function under check
    env       \* process.env

vars == <<now, cache, req, calc, env>>

(***************************************************************************)
(* String literals of the source.                                          *)
(***************************************************************************)
S_South_Indian == <<"S","o","u","t","h"," ","I","n","d","i","a","n">>   \* "South Indian"
S_Udupi == <<"U","d","u","p","i">>   \* "Udupi"
S_Udipi == <<"U","d","i","p","i">>   \* "Udipi"
S_Andhra == <<"A","n","d","h","r","a">>   \* "Andhra"
S_Tamil == <<"T","a","m","i","l">>   \* "Tamil"
S_Kerala == <<"K","e","r","a","l","a">>   \* "Kerala"
S_North_Indian == <<"N","o","r","t","h"," ","I","n","d","i","a","n">>   \* "North Indian"
S_Punjabi == <<"P","u","n","j","a","b","i">>   \* "Punjabi"
S_Mughlai == <<"M","u","g","h","l","a","i">>   \* "Mughlai"
S_Tandoor == <<"T","a","n","d","o","o","r">>   \* "Tandoor"
S_Dhaba == <<"D","h","a","b","a">>   \* "Dhaba"
S_Maharashtrian == <<"M","a","h","a","r","a","s","h","t","r","i","a","n">>   \* "Maharashtrian"
S_Malvani == <<"M","a","l","v","a","n","i">>   \* "Malvani"
S_Kolhapuri == <<"K","o","l","h","a","p","u","r","i">>   \* "Kolhapuri"
S_Puneri == <<"P","u","n","e","r","i">>   \* "Puneri"
S_Varhadi == <<"V","a","r","h","a","d","i">>   \* "Varhadi"
S_Khandeshi == <<"K","h","a","n","d","e","s","h","i">>   \* "Khandeshi"
S_Street_food == <<"S","t","r","e","e","t"," ","f","o","o","d">>   \* "Street food"
S_Chaat == <<"C","h","a","a","t">>   \* "Chaat"
S_Snacks == <<"S","n","a","c","k","s">>   \* "Snacks"
S_Vada_pav == <<"V","a","d","a"," ","p","a","v">>   \* "Vada pav"
S_Misal == <<"M","i","s","a","l">>   \* "Misal"
S_Bhel == <<"B","h","e","l">>   \* "Bhel"
S_Seafood == <<"S","e","a","f","o","o","d">>   \* "Seafood"
S_Coastal == <<"C","o","a","s","t","a","l">>   \* "Coastal"
S_Fish == <<"F","i","s","h">>   \* "Fish"
S_Surmai == <<"S","u","r","m","a","i">>   \* "Surmai"
S_Prawn == <<"P","r","a","w","n">>   \* "Prawn"
S_Vegetarian == <<"V","e","g","e","t","a","r","i","a","n">>   \* "Vegetarian"
S_Pure_Veg == <<"P","u","r","e"," ","V","e","g">>   \* "Pure Veg"
S__pure_veg_restaurant == <<" ","p","u","r","e"," ","v","e","g"," ","r","e","s","t","a","u","r","a","n","t">>   \* " pure veg restaurant"
S__restaurant == <<" ","r","e","s","t","a","u","r","a","n","t">>   \* " restaurant"
S_pure_veg_restaurant == <<"p","u","r","e"," ","v","e","g"," ","r","e","s","t","a","u","r","a","n","t">>   \* "pure veg restaurant"
S_famous_pure_veg_restaurant == <<"f","a","m","o","u","s"," ","p","u","r","e"," ","v","e","g"," ","r","e","s","t","a","u","r","a","n","t">>   \* "famous pure veg restaurant"
S_famous_restaurant == <<"f","a","m","o","u","s"," ","r","e","s","t","a","u","r","a","n","t">>   \* "famous restaurant"
S_pure_veg == <<"p","u","r","e"," ","v","e","g">>   \* "pure veg"
S_veg_only == <<"v","e","g"," ","o","n","l","y">>   \* "veg only"
S_vegetarian == <<"v","e","g","e","t","a","r","i","a","n">>   \* "vegetarian"
S_shuddh == <<"s","h","u","d","d","h">>   \* "shuddh"
S_udupi == <<"u","d","u","p","i">>   \* "udupi"
S_udipi == <<"u","d","i","p","i">>   \* "udipi"
S_vegetarian_restaurant == <<"v","e","g","e","t","a","r","i","a","n","_","r","e","s","t","a","u","r","a","n","t">>   \* "vegetarian_restaurant"
S_restaurant == <<"r","e","s","t","a","u","r","a","n","t">>   \* "restaurant"
S_constructor == <<"c","o","n","s","t","r","u","c","t","o","r">>   \* "constructor"
S_toString == <<"t","o","S","t","r","i","n","g">>   \* "toString"
S_valueOf == <<"v","a","l","u","e","O","f">>   \* "valueOf"
S_hasOwnProperty == <<"h","a","s","O","w","n","P","r","o","p","e","r","t","y">>   \* "hasOwnProperty"
S_isPrototypeOf == <<"i","s","P","r","o","t","o","t","y","p","e","O","f">>   \* "isPrototypeOf"
S_propertyIsEnumerable == <<"p","r","o","p","e","r","t","y","I","s","E","n","u","m","e","r","a","b","l","e">>   \* "propertyIsEnumerable"
S_toLocaleString == <<"t","o","L","o","c","a","l","e","S","t","r","i","n","g">>   \* "toLocaleString"
S___proto__ == <<"_","_","p","r","o","t","o","_","_">>   \* "__proto__"
S___defineGetter__ == <<"_","_","d","e","f","i","n","e","G","e","t","t","e","r","_","_">>   \* "__defineGetter__"
S___defineSetter__ == <<"_","_","d","e","f","i","n","e","S","e","t","t","e","r","_","_">>   \* "__defineSetter__"
S___lookupGetter__ == <<"_","_","l","o","o","k","u","p","G","e","t","t","e","r","_","_">>   \* "__lookupGetter__"
S___lookupSetter__ == <<"_","_","l","o","o","k","u","p","S","e","t","t","e","r","_","_">>   \* "__lookupSetter__"
S_1 == <<"1">>   \* "1"
S_true == <<"t","r","u","e">>   \* "true"
S_yes == <<"y","e","s">>   \* "yes"
S_on == <<"o","n">>   \* "on"
S_0 == <<"0">>   \* "0"
S_balanced == <<"b","a","l","a","n","c","e","d">>   \* "balanced"
S_famous == <<"f","a","m","o","u","s">>   \* "famous"
S_5 == <<"5">>   \* "5"
S_12 == <<"1","2">>   \* "12"

(***************************************************************************)
(* JavaScript values and built-ins.                                        *)
(***************************************************************************)
Undefined == [def |-> FALSE, s |-> <<>>]
Str(s) == [def |-> TRUE, s |-> s]

NaN == [nan |-> TRUE, v |-> 0]
Num(v) == [nan |-> FALSE, v |-> v]
\* a whole number n as a JavaScript number (thousandths)
Whole(n) == Num(n * 1000)

Digits == <<"0","1","2","3","4","5","6","7","8","9">>
IsDigit(c) == \E i \in 1..10 : Digits[i] = c
DigitVal(c) == (CHOOSE i \in 1..10 : Digits[i] = c) - 1

UpperCase == <<"A","B","C","D","E","F","G","H","I","J","K","L","M",
               "N","O","P","Q","R","S","T","U","V","W","X","Y","Z">>
LowerCaseLetters == <<"a","b","c","d","e","f","g","h","i","j","k","l","m",
                      "n","o","p","q","r","s","t","u","v","w","x","y","z">>
LowerChar(c) ==
    IF \E i \in 1..26 : UpperCase[i] = c
    THEN LowerCaseLetters[CHOOSE i \in 1..26 : UpperCase[i] = c]
    ELSE c

\* String.prototype.toLowerCase
toLowerCase(s) == [i \in 1..Len(s) |-> LowerChar(s[i])]

\* String.prototype.includes
includes(hay, needle) ==
    \E i \in 0..(Len(hay) - Len(needle)) :
        SubSeq(hay, i + 1, i + Len(needle)) = needle

IsSpace(c) == c = " "

RECURSIVE trimStart(_)
trimStart(s) ==
    IF s # <<>> /\ IsSpace(Head(s)) THEN trimStart(Tail(s)) ELSE s

RECURSIVE trimEnd(_)
trimEnd(s) ==
    IF s # <<>> /\ IsSpace(s[Len(s)]) THEN trimEnd(SubSeq(s, 1, Len(s) - 1)) ELSE s

\* String.prototype.trim
trim(s) == trimEnd(trimStart(s))

\* String.prototype.split(","): the pieces between the separators
RECURSIVE splitFrom(_, _, _)
splitFrom(s, sep, cur) ==
    IF s = <<>> THEN <<cur>>
    ELSE IF Head(s) = sep THEN <<cur>> \o splitFrom(Tail(s), sep, <<>>)
    ELSE splitFrom(Tail(s), sep, Append(cur, Head(s)))

split(s, sep) == splitFrom(s, sep, <<>>)

\* Array.prototype.map on sequences (filter is SelectSeq)
mapSeq(xs, F(_)) == [i \in 1..Len(xs) |-> F(xs[i])]

\* the longest prefix of digits of s
RECURSIVE digitPrefix(_)
digitPrefix(s) ==
    IF s # <<>> /\ IsDigit(Head(s)) THEN <<Head(s)>> \o digitPrefix(Tail(s)) ELSE <<>>

RECURSIVE digitsValue(_, _)
digitsValue(ds, acc) ==
    IF ds = <<>> THEN acc ELSE digitsValue(Tail(ds), acc * 10 + DigitVal(Head(ds)))

\* the fraction digits ds (at most three are kept) in thousandths
fractionValue(ds) ==
    LET d(i) == IF i <= Len(ds) THEN DigitVal(ds[i]) ELSE 0
    IN  d(1) * 100 + d(2) * 10 + d(3)

\* the sign, the digits and the fraction a decimal literal starts with, and what follows
numericPrefix(s0) ==
    LET result(neg, ip, fp, rest) ==
            [neg |-> neg, ip |-> ip, fp |-> fp, any |-> ip # <<>> \/ fp # <<>>, rest |-> rest]
        fraction(neg, ip, s2, fp) ==
            IF ip # <<>> \/ fp # <<>>
            THEN result(neg, ip, fp, SubSeq(s2, Len(fp) + 2, Len(s2)))
            ELSE result(neg, ip, <<>>, s2)
        point(neg, ip, s2) ==
            IF s2 # <<>> /\ Head(s2) = "."
            THEN fraction(neg, ip, s2, digitPrefix(Tail(s2)))
            ELSE result(neg, ip, <<>>, s2)
        integer(neg, s1, ip) == point(neg, ip, SubSeq(s1, Len(ip) + 1, Len(s1)))
        unsigned(neg, s1) == integer(neg, s1, digitPrefix(s1))
        sign(s) ==
            IF s # <<>> /\ Head(s) \in {"-", "+"} THEN unsigned(Head(s) = "-", Tail(s))
            ELSE unsigned(FALSE, s)
    IN  sign(trimStart(s0))

\* the value of a numeric prefix, in thousandths
prefixValue(p, withFraction) ==
    LET signed(m) == IF p.neg THEN -m ELSE m
    IN  signed(digitsValue(p.ip, 0) * 1000 + (IF withFraction THEN fractionValue(p.fp) ELSE 0))

\* parseFloat(x)
parseFloat(x) ==
    LET value(p) == IF ~p.any THEN NaN ELSE Num(prefixValue(p, TRUE))
    IN  IF ~x.def THEN NaN ELSE value(numericPrefix(x.s))

\* parseInt(x, 10)
parseInt(x) ==
    LET value(p) == IF p.ip = <<>> THEN NaN ELSE Num(prefixValue(p, FALSE))
    IN  IF ~x.def THEN NaN ELSE value(numericPrefix(x.s))

\* Number(x)
Number(x) ==
    LET value(p) == IF ~p.any \/ trim(p.rest) # <<>> THEN NaN ELSE Num(prefixValue(p, TRUE))
    IN  IF ~x.def THEN NaN
        ELSE IF trim(x.s) = <<>> THEN Num(0)
        ELSE value(numericPrefix(x.s))

\* a || b on numbers (NaN and 0 are falsy) and on strings (undefined and "" are falsy)
OrNum(a, b) == IF a.nan \/ a.v = 0 THEN b ELSE a
OrStr(a, b) == IF ~a.def \/ a.s = <<>> THEN b ELSE a
\* a destructuring default: only undefined takes it
Default(a, b) == IF ~a.def THEN b ELSE a

\* Math.min / Math.max of two numbers
MathMin(a, b) == IF a.nan \/ b.nan THEN NaN ELSE IF a.v <= b.v THEN a ELSE b
MathMax(a, b) == IF a.nan \/ b.nan THEN NaN ELSE IF a.v >= b.v THEN a ELSE b

\* ToIntegerOrInfinity of a number: NaN is 0, the fraction is dropped
toInteger(x) ==
    IF x.nan THEN 0 ELSE IF x.v >= 0 THEN x.v \div 1000 ELSE -((-x.v) \div 1000)

\* how many elements xs.slice(0, end) keeps of an array of n
sliceCount(n, end) ==
    LET count(e) ==
            IF e < 0 THEN (IF n + e > 0 THEN n + e ELSE 0)
            ELSE IF e < n THEN e ELSE n
    IN  count(toInteger(end))

slice0(xs, end) == SubSeq(xs, 1, sliceCount(Len(xs), end))

(***************************************************************************)
(* Reading radiusKm and maxResults, one pair of operators per handler.     *)
(* q is req.query: a record of possibly-undefined strings.                 *)
(***************************************************************************)
\* Math.round(radius * 1000): the radius counts thousandths of a km already
radiusMeters(radius) == radius.v

\* clamp(n, lo, hi) of src/api/places.js
clamp(n, lo, hi) == MathMax(lo, MathMin(hi, n))

\* src/server.mjs, the Express route
server_radiusKm(q) == MathMin(MathMax(OrNum(parseFloat(q.radiusKm), Whole(5)), Whole(1)), Whole(20))
server_maxResults(q) == MathMin(parseInt(OrStr(q.maxResults, Str(S_12))), Whole(20))

\* src/places.js, the Netlify function
netlify_radiusKm(q) == MathMin(MathMax(OrNum(parseFloat(q.radiusKm), Whole(5)), Whole(1)), Whole(20))
netlify_maxResults(q) == MathMin(parseInt(OrStr(q.maxResults, Str(S_12))), Whole(20))

\* src/places.js, the first Vercel function
vercel_radius(q) ==
    MathMin(MathMax(OrNum(parseFloat(Default(q.radiusKm, Str(S_5))), Whole(5)), Whole(1)), Whole(20))
vercel_max(q) == MathMin(parseInt(OrStr(Default(q.maxResults, Str(S_12)), Str(S_12))), Whole(20))

\* src/unnamed/part_000, the Vercel proxy with openNow / keyword / type
proxy_radius(q) ==
    MathMin(MathMax(OrNum(parseFloat(Default(q.radiusKm, Str(S_5))), Whole(5)), Whole(1)), Whole(20))
proxy_max(q) ==
    MathMin(MathMax(OrNum(parseInt(OrStr(Default(q.maxResults, Str(S_12)), Str(S_12))), Whole(12)),
                    Whole(1)), Whole(20))

\* src/places.js, the handler with grouped cuisine expansion
grouped_radius(q) ==
    MathMin(MathMax(OrNum(parseFloat(Default(q.radiusKm, Str(S_5))), Whole(5)), Whole(1)), Whole(20))
grouped_max(q) ==
    MathMin(MathMax(OrNum(parseInt(Default(q.maxResults, Str(S_12))), Whole(12)), Whole(1)), Whole(20))

\* src/api/places.js, the handler with per-cuisine keywords
keyword_radius(q) ==
    MathMin(MathMax(OrNum(Number(Default(q.radiusKm, Str(S_5))), Whole(5)), Whole(1)), Whole(20))
keyword_max(q) ==
    MathMin(MathMax(OrNum(parseInt(Default(q.maxResults, Str(S_12))), Whole(12)), Whole(1)), Whole(20))

\* src/api/places.js, the handler with ranking and cache
cached_radius(q) == clamp(OrNum(parseFloat(Default(q.radiusKm, Str(S_5))), Whole(5)), Whole(1), Whole(20))
cached_max(q) == clamp(OrNum(parseInt(Default(q.maxResults, Str(S_12))), Whole(12)), Whole(1), Whole(20))

Variants == {"server", "netlify", "vercel", "proxy", "grouped", "keyword", "cached"}

radiusOf(variant, q) ==
    CASE variant = "server"  -> server_radiusKm(q)
      [] variant = "netlify" -> netlify_radiusKm(q)
      [] variant = "vercel"  -> vercel_radius(q)
      [] variant = "proxy"   -> proxy_radius(q)
      [] variant = "grouped" -> grouped_radius(q)
      [] variant = "keyword" -> keyword_radius(q)
      [] variant = "cached"  -> cached_radius(q)

maxOf(variant, q) ==
    CASE variant = "server"  -> server_maxResults(q)
      [] variant = "netlify" -> netlify_maxResults(q)
      [] variant = "vercel"  -> vercel_max(q)
      [] variant = "proxy"   -> proxy_max(q)
      [] variant = "grouped" -> grouped_max(q)
      [] variant = "keyword" -> keyword_max(q)
      [] variant = "cached"  -> cached_max(q)

(***************************************************************************)
(* SpecClamp: every handler's reading of radiusKm and maxResults, and the  *)
(* cut of a provider answer of n records to the cap.                       *)
(***************************************************************************)
\* the most records a provider answer holds here
MaxProvided == 3

RadiusInputs ==
    { Undefined, Str(<<>>), Str(<<"a","b","c">>), Str(<<"0">>), Str(<<"-","3">>),
      Str(<<"0",".","5">>), Str(<<"7",".","5">>), Str(<<"2","0">>), Str(<<"2","5">>),
      Str(<<"7","k","m">>) }

MaxInputs ==
    { Undefined, Str(<<>>), Str(<<"a","b","c">>), Str(<<"0">>), Str(<<"-","1">>),
      Str(<<"1">>), Str(<<"2",".","9">>), Str(<<"2","0">>), Str(<<"2","1">>) }

InitClamp ==
    /\ now = 0 /\ cache = <<>> /\ req = <<>> /\ env = <<>>
    /\ calc \in [phase : {"args"}, variant : Variants,
                 radiusKm : RadiusInputs, maxResults : MaxInputs, n : 0..MaxProvided]

ClampStep ==
    LET result(radius, max) ==
            [phase |-> "result", variant |-> calc.variant,
             radiusKm |-> calc.radiusKm, maxResults |-> calc.maxResults, n |-> calc.n,
             radiusMeters |-> radiusMeters(radius),
             max |-> max,
             returned |-> sliceCount(calc.n, max)]
        query == [radiusKm |-> calc.radiusKm, maxResults |-> calc.maxResults]
    IN  /\ calc.phase = "args"
        /\ calc' = result(radiusOf(calc.variant, query), maxOf(calc.variant, query))
        /\ UNCHANGED <<now, cache, req, env>>

SpecClamp == InitClamp /\ [][ClampStep]_vars

\* C1: in every handler variant and for every radiusKm and maxResults, the radius
\* of the provider call is within 1..20 km and the cap is an integer within 1..20.
C1_BoundsEverywhere ==
    calc.phase = "result" =>
        /\ calc.radiusMeters \in 1000..20000
        /\ ~calc.max.nan
        /\ \E k \in 1..20 : calc.max.v = k * 1000

\* the Express route given maxResults=0 caps the answer at no record at all
C1_ZeroCap ==
    /\ calc.phase = "result"
    /\ calc.variant = "server"
    /\ calc.maxResults = Str(<<"0">>)
    /\ calc.max = Num(0)
    /\ calc.n = MaxProvided
    /\ calc.returned = 0

(***************************************************************************)
(* Cuisine expansion, the cache key and the query plan.                    *)
(***************************************************************************)
\* CUISINE_GROUPS of src/api/places.js
CUISINE_GROUPS ==
    (S_South_Indian :> <<S_South_Indian, S_Udupi, S_Udipi, S_Andhra, S_Tamil, S_Kerala>>) @@
    (S_North_Indian :> <<S_North_Indian, S_Punjabi, S_Mughlai, S_Tandoor, S_Dhaba>>) @@
    (S_Maharashtrian :> <<S_Maharashtrian, S_Malvani, S_Kolhapuri, S_Puneri, S_Varhadi, S_Khandeshi>>) @@
    (S_Street_food :> <<S_Street_food, S_Chaat, S_Snacks, S_Vada_pav, S_Misal, S_Bhel>>) @@
    (S_Seafood :> <<S_Seafood, S_Coastal, S_Fish, S_Surmai, S_Prawn>>) @@
    (S_Vegetarian :> <<S_Vegetarian, S_Pure_Veg>>)

\* CUISINE_GROUPS of the grouped handler of src/places.js
grouped_CUISINE_GROUPS ==
    (S_South_Indian :> <<S_South_Indian, S_Udupi, S_Udipi, S_Andhra, S_Tamil>>) @@
    (S_North_Indian :> <<S_North_Indian, S_Punjabi, S_Mughlai>>) @@
    (S_Maharashtrian :> <<S_Maharashtrian, S_Malvani, S_Kolhapuri, S_Puneri, S_Varhadi, S_Khandeshi>>) @@
    (S_Street_food :> <<S_Street_food, S_Chaat, S_Snacks>>) @@
    (S_Seafood :> <<S_Seafood, S_Coastal, S_Fish>>) @@
    (S_Vegetarian :> <<S_Vegetarian, S_Pure_Veg>>)

\* The properties an object literal inherits from Object.prototype: obj[c] is a
\* truthy value without forEach for these names.
ObjectPrototypeNames ==
    { S_constructor, S_toString, S_valueOf, S_hasOwnProperty, S_isPrototypeOf,
      S_propertyIsEnumerable, S_toLocaleString, S___proto__, S___defineGetter__,
      S___defineSetter__, S___lookupGetter__, S___lookupSetter__ }

NonEmpty(s) == s # <<>>

\* rawCuisines without the trim of each entry
rawCuisines_noTrim(cuisines) ==
    SelectSeq(split(OrStr(cuisines, Str(<<>>)).s, ","), NonEmpty)

\* String(cuisines || "").split(",").map(s => s.trim()).filter(Boolean)
rawCuisines(cuisines) ==
    SelectSeq(mapSeq(split(OrStr(cuisines, Str(<<>>)).s, ","), trim), NonEmpty)

\* Set.prototype.add on a set kept in insertion order
setAdd(set, k) == IF \E i \in 1..Len(set) : set[i] = k THEN set ELSE Append(set, k)

RECURSIVE setAddAll(_, _)
setAddAll(set, ks) == IF ks = <<>> THEN set ELSE setAddAll(setAdd(set, Head(ks)), Tail(ks))

\* The loop that fills keywordSet; threw: CUISINE_GROUPS[c].forEach is not a function.
RECURSIVE expandInto(_, _, _)
expandInto(groups, set, cs) ==
    IF cs = <<>> THEN [threw |-> FALSE, keywords |-> set]
    ELSE LET c == Head(cs)
         IN  IF c \in DOMAIN groups
                 THEN expandInto(groups, setAddAll(set, groups[c]), Tail(cs))
             ELSE IF c \in ObjectPrototypeNames
                 THEN [threw |-> TRUE, keywords |-> set]
             ELSE expandInto(groups, setAdd(set, c), Tail(cs))

\* keywordSet / keywords of a request
keywordSet(groups, cuisines) == expandInto(groups, <<>>, rawCuisines(cuisines))

\* parseBool
parseBool(v) ==
    toLowerCase(Default(v, Str(<<>>)).s) \in {S_1, S_true, S_yes, S_on}

\* mode
modeOf(discoveryMode) ==
    IF toLowerCase(OrStr(discoveryMode, Str(S_balanced)).s) = S_famous
    THEN "famous" ELSE "balanced"

\* latitude.toFixed(5): coordinates here have at most three decimals, which
\* toFixed(5) renders one-to-one
toFixed5(n) == n.v

\* JSON.stringify of the key object: one-to-one on its seven fields
cacheKey(latitude, longitude, radius, max, keywords, isPureVeg, mode) ==
    [lat |-> toFixed5(latitude), lng |-> toFixed5(longitude),
     radius |-> radius.v, max |-> max.v,
     keywords |-> keywords, isPureVeg |-> isPureVeg, mode |-> mode]

\* the keyword without the dietary nudge
keywordQuery_plain(k, isPureVeg) == Str(k \o S__restaurant)

\* the keyword of one keyword-specific query
keywordQuery(k, isPureVeg) ==
    Str(IF isPureVeg THEN k \o S__pure_veg_restaurant ELSE k \o S__restaurant)

\* queries without the second broad call of famous mode
queries_single(keywords, isPureVeg, mode) ==
    IF Len(keywords) > 0
    THEN [i \in 1..(IF Len(keywords) < 8 THEN Len(keywords) ELSE 8) |->
              keywordQuery(keywords[i], isPureVeg)]
    ELSE <<IF isPureVeg THEN Str(S_pure_veg_restaurant) ELSE Undefined>>

\* queries with one call for every keyword, however many
queries_uncapped(keywords, isPureVeg, mode) ==
    IF Len(keywords) > 0
    THEN [i \in 1..Len(keywords) |-> keywordQuery(keywords[i], isPureVeg)]
    ELSE <<IF isPureVeg THEN Str(S_pure_veg_restaurant) ELSE Undefined>> \o
         (IF mode = "famous"
          THEN <<IF isPureVeg THEN Str(S_famous_pure_veg_restaurant) ELSE Str(S_famous_restaurant)>>
          ELSE <<>>)

\* queries: the keyword of each Nearby Search call, in issue order
queries(keywords, isPureVeg, mode) ==
    IF Len(keywords) > 0
    THEN [i \in 1..(IF Len(keywords) < 8 THEN Len(keywords) ELSE 8) |->
              keywordQuery(keywords[i], isPureVeg)]
    ELSE <<IF isPureVeg THEN Str(S_pure_veg_restaurant) ELSE Undefined>> \o
         (IF mode = "famous"
          THEN <<IF isPureVeg THEN Str(S_famous_pure_veg_restaurant) ELSE Str(S_famous_restaurant)>>
          ELSE <<>>)

\* the searches of the grouped handler of src/places.js
grouped_queries(keywords) ==
    IF Len(keywords) > 0
    THEN [i \in 1..Len(keywords) |-> Str(keywords[i] \o S__restaurant)]
    ELSE <<Undefined>>


(***************************************************************************)
(* Venues: filter, score, merge, order.                                    *)
(* A provider record is [place_id, name, vicinity, types, rating,          *)
(* user_ratings_total, geometry]; rating and user_ratings_total are        *)
(* optional numbers [def, v] (rating in thousandths), geometry is the      *)
(* optional location, given by its haversine distance from the request's   *)
(* origin in millionths of a km.                                           *)
(***************************************************************************)
None == [def |-> FALSE, v |-> 0]
Some(v) == [def |-> TRUE, v |-> v]

\* the value of place.vicinity: the records the handler filters have no such field
vicinityOf(place) == IF "vicinity" \in DOMAIN place THEN place.vicinity ELSE Undefined

vegHints == <<S_pure_veg, S_veg_only, S_vegetarian, S_shuddh, S_udupi, S_udipi>>

\* isPureVegCandidate
isPureVegCandidate(place) ==
    LET hasHint(name, vicinity) ==
            \E i \in 1..Len(vegHints) :
                includes(name, vegHints[i]) \/ includes(vicinity, vegHints[i])
        typeHint(types) == \E i \in 1..Len(types) : types[i] = S_vegetarian_restaurant
    IN  \/ hasHint(toLowerCase(OrStr(place.name, Str(<<>>)).s),
                   toLowerCase(OrStr(vicinityOf(place), Str(<<>>)).s))
        \/ typeHint(mapSeq(place.types, toLowerCase))

\* Math.log1p(n) in 1e-9, for the review counts of the provider records here
Log1pNano(n) ==
    CASE n = 0 -> 0
      [] n = 1 -> 693147181
      [] n = 2 -> 1098612289
      [] n = 3 -> 1386294361

\* haversineKm(latitude, longitude, coords.lat, coords.lng), in millionths of a km
haversineKm(geometry) == geometry.v

\* popularityScore, in 1e-9
popularityScore(rating, userRatingsTotal, distanceKm, mode) ==
    LET weigh(pop, distBonus) ==
            IF mode = "famous"
            THEN pop + (pop \div 100) * 35 + distBonus * 600
            ELSE pop + distBonus * 1100
        bonus(d) == IF d < 6000000 THEN 6000000 - d ELSE 0          \* millionths
        popularity(r, n) == (Log1pNano(n) \div 10) * r                \* r in tenths
    IN  weigh(popularity(IF rating.def THEN rating.v \div 100 ELSE 0,
                         IF userRatingsTotal.def THEN userRatingsTotal.v ELSE 0),
              bonus(IF distanceKm.def THEN distanceKm.v ELSE 999000000))

\* the body of a fetchNearby result that the merge loop keeps: its results, or none
contribution(r) ==
    IF r.kind # "json" THEN <<>>
    ELSE IF r.status \notin {"OK", "ZERO_RESULTS"} THEN <<>>
    ELSE r.results

\* merged with the answers taken last-issued first
RECURSIVE mergeAll_reversed(_)
mergeAll_reversed(fetched) ==
    IF fetched = <<>> THEN <<>>
    ELSE mergeAll_reversed(Tail(fetched)) \o contribution(Head(fetched))

\* merged: the results of the fetched answers, in issue order
RECURSIVE mergeAll(_)
mergeAll(fetched) ==
    IF fetched = <<>> THEN <<>> ELSE contribution(Head(fetched)) \o mergeAll(Tail(fetched))

\* Dedupe by place_id: the first record of each id, records without id dropped
RECURSIVE dedupeInto(_, _)
dedupeInto(byId, merged) ==
    IF merged = <<>> THEN byId
    ELSE LET p == Head(merged)
             id == p.place_id
         IN  IF ~id.def \/ id.s = <<>> THEN dedupeInto(byId, Tail(merged))
             ELSE IF \E i \in 1..Len(byId) : byId[i].place_id = id
                  THEN dedupeInto(byId, Tail(merged))
             ELSE dedupeInto(Append(byId, p), Tail(merged))

\* dedupe without the loop's checks: every merged record is kept
dedupe_keepAll(merged) == merged

dedupe(merged) == dedupeInto(<<>>, merged)

\* Convert, compute distance, compute score
convert(p, mode) ==
    LET place(distanceKm) ==
            [id |-> p.place_id,
             name |-> p.name,
             area |-> OrStr(p.vicinity, Str(<<>>)).s,
             rating |-> p.rating,
             userRatingsTotal |-> p.user_ratings_total,
             types |-> p.types,
             distanceKm |-> distanceKm,
             _score |-> popularityScore(p.rating, p.user_ratings_total, distanceKm, mode)]
    IN  place(IF p.geometry.def THEN Some(haversineKm(p.geometry)) ELSE None)

\* 1e-9 in the unit of the scores
ScoreEpsilon == 1

\* a.distanceKm ?? 999
distanceOr999(a) == IF a.distanceKm.def THEN a.distanceKm.v ELSE 999000000

\* the comparator of places.sort: negative puts a first
compare(a, b) ==
    LET decide(ds, da) == IF ds > ScoreEpsilon \/ -ds > ScoreEpsilon THEN ds ELSE da
    IN  decide(b._score - a._score, distanceOr999(a) - distanceOr999(b))

\* Array.prototype.sort: a stable insertion sort
RECURSIVE insertSorted(_, _)
insertSorted(sorted, x) ==
    IF sorted = <<>> THEN <<x>>
    ELSE LET last == sorted[Len(sorted)]
         IN  IF compare(last, x) <= 0 THEN Append(sorted, x)
             ELSE Append(insertSorted(SubSeq(sorted, 1, Len(sorted) - 1), x), last)

RECURSIVE sortInto(_, _)
sortInto(sorted, xs) ==
    IF xs = <<>> THEN sorted ELSE sortInto(insertSorted(sorted, Head(xs)), Tail(xs))

\* places.sort that leaves the array as it was
sort_unsorted(places) == places

sort(places) == sortInto(<<>>, places)

\* whether compare is a consistent comparison function for these places
\* (ECMAScript, Array.prototype.sort): equal and less are transitive
consistent(places) ==
    \A i, j, k \in 1..Len(places) :
        /\ (compare(places[i], places[j]) = 0 /\ compare(places[j], places[k]) = 0)
               => compare(places[i], places[k]) = 0
        /\ (compare(places[i], places[j]) < 0 /\ compare(places[j], places[k]) < 0)
               => compare(places[i], places[k]) < 0
        /\ (compare(places[i], places[j]) < 0 /\ compare(places[j], places[k]) = 0)
               => compare(places[i], places[k]) < 0
        /\ (compare(places[i], places[j]) = 0 /\ compare(places[j], places[k]) < 0)
               => compare(places[i], places[k]) < 0

\* every order of the places
orders(places) ==
    {[i \in 1..Len(places) |-> places[p[i]]] : p \in Permutations(1..Len(places))}

\* what places.sort(compare) can leave in places: the stable sorted order, or, when
\* compare is not consistent for them, an implementation-defined order
sortOutcomes(places) ==
    IF consistent(places) THEN {sort(places)} ELSE orders(places)

\* the record handed on with _score left in
stripScore_keep(p) == p

\* const { _score, ...rest } = p
stripScore(p) ==
    [id |-> p.id, name |-> p.name, area |-> p.area, rating |-> p.rating,
     userRatingsTotal |-> p.userRatingsTotal, types |-> p.types,
     distanceKm |-> p.distanceKm]

\* what the grouped handler of src/places.js returns of a provider record
grouped_convert(r) ==
    [id |-> r.place_id, name |-> r.name, area |-> OrStr(r.vicinity, Str(<<>>)).s,
     rating |-> r.rating, userRatingsTotal |-> r.user_ratings_total, types |-> r.types]

\* Cap results: the first max places, without _score
capped(sorted, max) == mapSeq(slice0(sorted, max), stripScore)

\* the pipeline of the caching handler after Promise.all: what payload.places can be
pipeline(fetched, isPureVeg, mode, max) ==
    LET out(sorted) == {capped(s, max) : s \in sorted}
        filter(places) == IF isPureVeg THEN SelectSeq(places, isPureVegCandidate) ELSE places
        score(byId) == [i \in 1..Len(byId) |-> convert(byId[i], mode)]
    IN  out(sortOutcomes(filter(score(dedupe(mergeAll(fetched))))))

(***************************************************************************)
(* The provider, as the handlers see it.                                   *)
(***************************************************************************)
S_A == <<"A">>
S_B == <<"B">>
S_C == <<"C">>
S_Udupi_Cafe == <<"U","d","u","p","i"," ","C","a","f","e">>
S_Spice_Hut == <<"S","p","i","c","e"," ","H","u","t">>
S_Green_Leaf == <<"G","r","e","e","n"," ","L","e","a","f">>
S_Main_Rd == <<"M","a","i","n"," ","R","d">>
S_Pure_Veg_Lane == <<"P","u","r","e"," ","V","e","g"," ","L","a","n","e">>

\* provider records: A twice (two snapshots of one place), one without place_id
PlaceA ==
    [place_id |-> Str(S_A), name |-> Str(S_Udupi_Cafe), vicinity |-> Str(S_Main_Rd),
     types |-> <<S_restaurant>>, rating |-> Some(1000), user_ratings_total |-> Some(2),
     geometry |-> Some(5200000)]
PlaceA_later ==
    [place_id |-> Str(S_A), name |-> Str(S_Udupi_Cafe), vicinity |-> Str(S_Main_Rd),
     types |-> <<S_restaurant>>, rating |-> None, user_ratings_total |-> None,
     geometry |-> Some(5200000)]
PlaceB ==
    [place_id |-> Str(S_B), name |-> Str(S_Spice_Hut), vicinity |-> Str(S_Pure_Veg_Lane),
     types |-> <<S_restaurant>>, rating |-> Some(1000), user_ratings_total |-> Some(1),
     geometry |-> Some(5500000)]
PlaceC ==
    [place_id |-> Str(S_C), name |-> Str(S_Green_Leaf), vicinity |-> Undefined,
     types |-> <<S_vegetarian_restaurant, S_restaurant>>, rating |-> None,
     user_ratings_total |-> None, geometry |-> None]
PlaceNoId ==
    [place_id |-> Undefined, name |-> Str(S_Spice_Hut), vicinity |-> Str(S_Main_Rd),
     types |-> <<S_restaurant>>, rating |-> Some(1000), user_ratings_total |-> Some(3),
     geometry |-> Some(5500000)]

\* what fetchNearby settles to
Pending == [kind |-> "pending", status |-> "", results |-> <<>>]
Rejected == [kind |-> "rejected", status |-> "", results |-> <<>>]    \* fetch() threw
HttpError == [kind |-> "http", status |-> "", results |-> <<>>]       \* !resp.ok
Unparsable == [kind |-> "unparsable", status |-> "", results |-> <<>>] \* JSON.parse threw
Json(status, results) == [kind |-> "json", status |-> status, results |-> results]

Answers ==
    { Rejected, HttpError, Unparsable,
      Json("REQUEST_DENIED", <<>>), Json("ZERO_RESULTS", <<>>),
      Json("OK", <<PlaceA, PlaceB>>),
      Json("OK", <<PlaceNoId, PlaceA_later, PlaceC>>) }

(***************************************************************************)
(* Requests.                                                               *)
(***************************************************************************)
CACHE_TTL_MS == 600000

\* the number of requests a behaviour handles
MaxReq == 2
\* the step of the clock and the time the clock stops at
TickMs == 300000
MaxNow == 600000

Slots == 1..MaxReq

S_19_2 == <<"1","9",".","2">>
S_72_97 == <<"7","2",".","9","7">>
S_Udupi_Chaat == S_Udupi \o <<",">> \o S_Chaat
S_2 == <<"2">>

Query(cuisines, pureVeg, discoveryMode, maxResults) ==
    [lat |-> Str(S_19_2), lng |-> Str(S_72_97), radiusKm |-> Undefined,
     maxResults |-> maxResults, cuisines |-> cuisines, pureVeg |-> pureVeg,
     discoveryMode |-> discoveryMode]

NoQuery == [Query(Undefined, Undefined, Undefined, Undefined) EXCEPT !.lat = Undefined]

\* the requests of Spec
Queries ==
    { Query(Undefined, Undefined, Undefined, Undefined),
      Query(Undefined, Str(S_1), Undefined, Undefined),
      Query(Str(S_Udupi_Chaat), Undefined, Undefined, Str(S_2)),
      Query(Str(S_constructor), Undefined, Undefined, Undefined),
      NoQuery }

\* the requests of Spec, each with the handler that serves it
Requests ==
    ({"cached"} \X Queries) \cup
    ({"grouped"} \X { Query(Undefined, Undefined, Undefined, Undefined),
                      Query(Str(S_Udupi_Chaat), Undefined, Undefined, Str(S_2)) })

\* the values a handler derives from req.query before its first await
derive(variant, q) ==
    LET locals(latitude, longitude, radius, max, isPureVeg, mode, expanded) ==
            [latitude |-> latitude, longitude |-> longitude, radius |-> radius, max |-> max,
             isPureVeg |-> isPureVeg, mode |-> mode,
             threw |-> expanded.threw, keywords |-> expanded.keywords,
             cacheKey |-> cacheKey(latitude, longitude, radius, max, expanded.keywords,
                                   isPureVeg, mode),
             queries |-> IF variant = "cached"
                         THEN queries(expanded.keywords, isPureVeg, mode)
                         ELSE grouped_queries(expanded.keywords)]
    IN  locals(parseFloat(q.lat), parseFloat(q.lng), radiusOf(variant, q), maxOf(variant, q),
               parseBool(Default(q.pureVeg, Str(S_0))),
               modeOf(Default(q.discoveryMode, Str(S_balanced))),
               keywordSet(IF variant = "cached" THEN CUISINE_GROUPS ELSE grouped_CUISINE_GROUPS,
                          Default(q.cuisines, Str(<<>>))))

\* a slot no request has come to yet; local holds the handler's local variables
idle ==
    [pc |-> "idle", variant |-> "cached", q |-> NoQuery, local |-> derive("cached", NoQuery),
     at |-> 0, fetched |-> <<>>, order |-> <<>>, calls |-> 0, hit |-> FALSE, status |-> 0, places |-> <<>>]

\* a set that stores no empty list
cacheSet_skipEmpty(key, places) ==
    IF places = <<>> THEN cache
    ELSE (key :> [ts |-> now, data |-> [places |-> places]]) @@ cache

\* a set that leaves an entry already stored under the key
cacheSet_keepFirst(key, places) ==
    IF key \in DOMAIN cache THEN cache
    ELSE (key :> [ts |-> now, data |-> [places |-> places]]) @@ cache

\* _cache.set(cacheKey, { ts: nowMs(), data: payload })
cacheSet(key, places) == (key :> [ts |-> now, data |-> [places |-> places]]) @@ cache

\* the lookup with the stored entry ignored
cacheFresh_never(key) == FALSE

\* the lookup with an entry of age CACHE_TTL_MS still served
cacheFresh_inclusive(key) == key \in DOMAIN cache /\ now - cache[key].ts <= CACHE_TTL_MS

\* cached && (nowMs() - cached.ts) < CACHE_TTL_MS
cacheFresh(key) == key \in DOMAIN cache /\ now - cache[key].ts < CACHE_TTL_MS

\* res.status(s).json(...) and return
respond(r, variant, q, local, at, fetched, order, hit, status, places) ==
    req' = [req EXCEPT ![r] =
               [pc |-> "done", variant |-> variant, q |-> q, local |-> local,
                at |-> at, fetched |-> fetched, order |-> order, calls |-> Len(fetched), hit |-> hit,
                status |-> status, places |-> places]]

Init ==
    /\ now = 0
    /\ cache = [k \in {} |-> 0]
    /\ req = [r \in Slots |-> idle]
    /\ calc = <<>>
    /\ env \in [GOOGLE_MAPS_API_KEY : BOOLEAN]

\* The handler from its entry to its first await: the checks, the cache lookup
\* and the issue of every Nearby Search call.
Start(r, variant, q) ==
    LET handle(d) ==
            IF ~env.GOOGLE_MAPS_API_KEY
                THEN respond(r, variant, q, d, now, <<>>, <<>>, FALSE, 500, <<>>)
            ELSE IF d.latitude.nan \/ d.longitude.nan
                THEN respond(r, variant, q, d, now, <<>>, <<>>, FALSE, 400, <<>>)
            ELSE IF d.threw
                THEN respond(r, variant, q, d, now, <<>>, <<>>, FALSE, 500, <<>>)
            ELSE IF variant = "cached" /\ cacheFresh(d.cacheKey)
                THEN respond(r, variant, q, d, now, <<>>, <<>>, TRUE, 200, cache[d.cacheKey].data.places)
            ELSE req' = [req EXCEPT ![r] =
                            [pc |-> "waiting", variant |-> variant, q |-> q, local |-> d,
                             at |-> now,
                             fetched |-> [i \in 1..Len(d.queries) |-> Pending],
                             order |-> <<>>,
                             calls |-> Len(d.queries), hit |-> FALSE, status |-> 0,
                             places |-> <<>>]]
    IN  /\ req[r].pc = "idle"
        /\ \A s \in Slots : s < r => req[s].pc # "idle"
        /\ handle(derive(variant, q))
        /\ UNCHANGED <<now, cache, calc, env>>

\* the results the grouped handler takes from one search
grouped_results(r) == IF r.kind = "json" /\ r.status = "OK" THEN r.results ELSE <<>>

\* Deduplicate: dedupe, stopped once max records are kept
grouped_dedupe(merged, max) ==
    LET cut(deduped, n) == SubSeq(deduped, 1, IF Len(deduped) < n THEN Len(deduped) ELSE n)
    IN  cut(dedupe(merged), max.v \div 1000)

\* the grouped handler after its searches: merge, dedupe up to max, convert
grouped_finish(fetched, keywords, max) ==
    IF Len(keywords) = 0 /\ fetched[1].kind # "json"
    THEN [status |-> 502, places |-> <<>>]
    ELSE [status |-> 200,
          places |-> mapSeq(grouped_dedupe(
                                mergeAll([i \in 1..Len(fetched) |->
                                              Json("OK", grouped_results(fetched[i]))]),
                                max),
                            grouped_convert)]

\* One Nearby Search call of request r settles with answer ans, and the handler
\* runs as far as that lets it: to its catch on a rejection, through the rest of
\* its body once every call has settled.
Complete(r, i, ans) ==
    LET settle(fetched) ==
            LET q == req[r].q
                variant == req[r].variant
                d == req[r].local
                order == Append(req[r].order, i)
                store(places) ==
                    /\ cache' = cacheSet(d.cacheKey, places)
                    /\ respond(r, variant, q, d, req[r].at, fetched, order, FALSE, 200, places)
                reply(out) ==
                    respond(r, variant, q, d, req[r].at, fetched, order, FALSE, out.status, out.places)
            IN  IF ans = Rejected
                    THEN respond(r, variant, q, d, req[r].at, fetched, order, FALSE, 500, <<>>) /\ UNCHANGED cache
                ELSE IF \E j \in 1..Len(fetched) : fetched[j] = Pending
                    THEN req' = [req EXCEPT ![r].fetched = fetched, ![r].order = order]
                         /\ UNCHANGED cache
                ELSE IF variant = "cached"
                    THEN \E places \in pipeline(fetched, d.isPureVeg, d.mode, d.max) :
                             store(places)
                ELSE reply(grouped_finish(fetched, d.keywords, d.max)) /\ UNCHANGED cache
    IN  /\ req[r].pc = "waiting"
        /\ i \in 1..Len(req[r].fetched)
        /\ req[r].fetched[i] = Pending
        /\ settle([req[r].fetched EXCEPT ![i] = ans])
        /\ UNCHANGED <<now, calc, env>>

\* the clock advances
Tick ==
    /\ now < MaxNow
    /\ now' = now + TickMs
    /\ UNCHANGED <<cache, req, calc, env>>

Next ==
    \/ \E r \in Slots, vq \in Requests : Start(r, vq[1], vq[2])
    \/ \E r \in Slots, i \in 1..8, ans \in Answers : Complete(r, i, ans)
    \/ Tick

Spec == Init /\ [][Next]_vars

(***************************************************************************)
(* Properties of the requests of Spec.                                     *)
(***************************************************************************)
\* a request that got through the parameter checks and computed its cache key
keyed(r) ==
    /\ req[r].pc # "idle"
    /\ env.GOOGLE_MAPS_API_KEY
    /\ ~req[r].local.latitude.nan /\ ~req[r].local.longitude.nan
    /\ ~req[r].local.threw

\* a sub-query that failed without a transport failure
failedAnswer(a) ==
    \/ a.kind \in {"http", "unparsable"}
    \/ a.kind = "json" /\ a.status \notin {"OK", "ZERO_RESULTS"}

\* C2: in every success response of the aggregating handlers no two venues share
\* an id and no venue lacks one, whatever the provider returned.
C2_UniqueIds ==
    \A r \in Slots :
        req[r].pc = "done" /\ req[r].status = 200 =>
            /\ \A i \in 1..Len(req[r].places) :
                   req[r].places[i].id.def /\ req[r].places[i].id.s # <<>>
            /\ \A i, j \in 1..Len(req[r].places) :
                   i # j => req[r].places[i].id # req[r].places[j].id

\* two sub-queries answered with overlapping lists, one record without place_id
C2_OverlapAnswered ==
    \E r \in Slots :
        /\ req[r].pc = "done" /\ req[r].status = 200 /\ ~req[r].hit
        /\ req[r].fetched = <<Json("OK", <<PlaceA, PlaceB>>),
                              Json("OK", <<PlaceNoId, PlaceA_later, PlaceC>>)>>
        /\ Len(req[r].places) = 2

\* C3: a request whose key has a cache entry younger than the TTL is answered
\* with exactly the stored payload and issues no provider call.
C3_HitShortCircuits ==
    [][\A r \in Slots :
           (/\ req[r].pc = "idle" /\ keyed(r)'
            /\ req'[r].variant = "cached"
            /\ req'[r].local.cacheKey \in DOMAIN cache
            /\ now - cache[req'[r].local.cacheKey].ts < CACHE_TTL_MS)
           => /\ req'[r].pc = "done"
              /\ req'[r].status = 200
              /\ req'[r].places = cache[req'[r].local.cacheKey].data.places
              /\ req'[r].calls = 0
              /\ req'[r].fetched = <<>>]_vars

\* a request answered from the cache with a stored list of venues
C3_ServedFromCache ==
    \E r \in Slots :
        /\ req[r].pc = "done" /\ req[r].hit
        /\ req[r].calls = 0
        /\ req[r].places # <<>>

\* C4: a stored payload is returned to a request with the same key made
\* immediately afterwards; no request is answered from an entry whose age is
\* CACHE_TTL_MS or more: it is a miss and goes to the provider.
C4_RoundTripAndExpiry ==
    [][\A r \in Slots :
           /\ (/\ req[r].pc = "waiting" /\ req'[r].pc = "done"
               /\ req'[r].variant = "cached" /\ req'[r].status = 200)
              => /\ req'[r].local.cacheKey \in DOMAIN cache'
                 /\ cache'[req'[r].local.cacheKey] =
                        [ts |-> now, data |-> [places |-> req'[r].places]]
           /\ (req[r].pc = "idle" /\ keyed(r)' /\ req'[r].variant = "cached")
              => /\ (/\ req'[r].local.cacheKey \in DOMAIN cache
                     /\ cache[req'[r].local.cacheKey].ts = now)
                    => /\ req'[r].hit
                       /\ req'[r].places = cache[req'[r].local.cacheKey].data.places
                 /\ req'[r].hit
                    => /\ req'[r].local.cacheKey \in DOMAIN cache
                       /\ now - cache[req'[r].local.cacheKey].ts < CACHE_TTL_MS
                 /\ (/\ req'[r].local.cacheKey \in DOMAIN cache
                     /\ now - cache[req'[r].local.cacheKey].ts >= CACHE_TTL_MS)
                    => /\ req'[r].pc = "waiting"
                       /\ ~req'[r].hit
                       /\ req'[r].calls >= 1]_vars

\* a request that came when its key's entry was CACHE_TTL_MS old went to the provider
C4_ExpiredEntryMissed ==
    \E r \in Slots :
        /\ req[r].pc = "waiting"
        /\ req[r].local.cacheKey \in DOMAIN cache
        /\ req[r].at - cache[req[r].local.cacheKey].ts = CACHE_TTL_MS


\* C12: no venue carries the internal score field, neither in the payload
\* answered on a cache miss, nor in a payload stored in the cache, nor in the
\* payload answered on a later cache hit.
C12_NoScoreExposed ==
    /\ \A r \in Slots :
           req[r].pc = "done" =>
               \A i \in 1..Len(req[r].places) : "_score" \notin DOMAIN req[r].places[i]
    /\ \A k \in DOMAIN cache :
           \A i \in 1..Len(cache[k].data.places) :
               "_score" \notin DOMAIN cache[k].data.places[i]

\* venues answered on a miss, stored, and answered again on a hit of that entry
C12_ScoredVenuesServedTwice ==
    \E r, h \in Slots :
        /\ req[r].pc = "done" /\ req[r].status = 200 /\ ~req[r].hit
        /\ req[r].variant = "cached" /\ Len(req[r].places) = 2
        /\ req[h].pc = "done" /\ req[h].hit /\ req[h].places = req[r].places
        /\ req[r].local.cacheKey \in DOMAIN cache
        /\ cache[req[r].local.cacheKey].data.places = req[r].places

\* C6: a request with several sub-queries of which some fail (transport failure,
\* non-success HTTP status, unparsable body, provider status other than OK or
\* ZERO_RESULTS) still ends in a success response, never in a top-level error.
C6_FailuresRecovered ==
    \A r \in Slots :
        (/\ req[r].pc = "done" /\ ~req[r].hit
         /\ Len(req[r].fetched) >= 2
         /\ \E i \in 1..Len(req[r].fetched) :
                req[r].fetched[i] = Rejected \/ failedAnswer(req[r].fetched[i]))
        => req[r].status = 200

\* one of two sub-queries met a transport failure and the request ended in a 500
C6_TransportFailureEscalates ==
    \E r \in Slots :
        /\ req[r].pc = "done" /\ req[r].variant = "cached"
        /\ req[r].fetched = <<Json("OK", <<PlaceA, PlaceB>>), Rejected>>
        /\ req[r].status = 500

\* C7: with no cuisines, when the single provider call fails (non-success HTTP,
\* unparsable body, provider status other than OK or ZERO_RESULTS) the request
\* ends in a 502, not in a success response with an empty list.
C7_SingleFailureEscalates ==
    \A r \in Slots :
        (/\ req[r].pc = "done" /\ ~req[r].hit
         /\ Len(req[r].local.keywords) = 0
         /\ Len(req[r].fetched) = 1
         /\ failedAnswer(req[r].fetched[1]))
        => req[r].status = 502

\* the caching handler answered 200 with no venue after its only call failed
C7_EmptySuccessOnFailure ==
    \E r \in Slots :
        /\ req[r].pc = "done" /\ req[r].variant = "cached"
        /\ req[r].local.keywords = <<>>
        /\ req[r].fetched = <<HttpError>>
        /\ req[r].status = 200
        /\ req[r].places = <<>>

\* C10: with the dietary flag set a merged venue is kept iff its name or its
\* vicinity holds a hint or its types include vegetarian_restaurant; without
\* the flag the filter removes no venue.
C10_DietaryFilter ==
    \A r \in Slots :
        (/\ req[r].pc = "done" /\ ~req[r].hit
         /\ req[r].variant = "cached" /\ req[r].status = 200)
        => LET byId == dedupe(mergeAll(req[r].fetched))
               kept(p) == \E j \in 1..Len(req[r].places) : req[r].places[j].id = p.place_id
           IN  Len(byId) * 1000 <= req[r].local.max.v
               => \A i \in 1..Len(byId) :
                      kept(byId[i]) <=> (~req[r].local.isPureVeg \/ isPureVegCandidate(byId[i]))

\* with the flag set, a venue whose only hint is in its vicinity was dropped
C10_AddressHintDropped ==
    \E r \in Slots :
        /\ req[r].pc = "done" /\ req[r].status = 200
        /\ req[r].local.isPureVeg
        /\ req[r].fetched = <<Json("OK", <<PlaceA, PlaceB>>)>>
        /\ Len(req[r].places) = 1
        /\ req[r].places[1].id = PlaceA.place_id


\* C14: a request is answered, with success or with an error, only after every
\* provider call issued for it has completed; no failure of one call lets the
\* response go out while sibling calls are outstanding.
C14_AnsweredAfterAllCalls ==
    \A r \in Slots :
        req[r].pc = "done" =>
            \A j \in 1..Len(req[r].fetched) : req[r].fetched[j] # Pending

\* a request answered 500 on the rejection of one call, its sibling outstanding
C14_AnsweredWhileCallPending ==
    \E r \in Slots :
        /\ req[r].pc = "done" /\ req[r].status = 500 /\ Len(req[r].fetched) = 2
        /\ \E i, j \in 1..2 : req[r].fetched[i] = Rejected /\ req[r].fetched[j] = Pending


\* where the answers of a request hold a record with the given id: <<call, position>>
occurrences(fetched, id) ==
    UNION {{<<a, p>> : p \in {n \in 1..Len(contribution(fetched[a])) :
                                  contribution(fetched[a])[n].place_id = id}} :
           a \in 1..Len(fetched)}

\* <<call, position>> pairs in issue order, then in the order of the answer
before(x, y) == x[1] < y[1] \/ (x[1] = y[1] /\ x[2] < y[2])

\* the record with the given id in the earliest-issued call that returned it
earliest(fetched, id) ==
    LET at(x) == contribution(fetched[x[1]])[x[2]]
        least(occ) == CHOOSE x \in occ : \A y \in occ : x = y \/ before(x, y)
    IN  at(least(occurrences(fetched, id)))

\* a request answered from its own provider calls
merged(r) == req[r].pc = "done" /\ req[r].status = 200 /\ ~req[r].hit

\* C15: the merge follows the issue order of the calls, not the order in which
\* they completed: every venue of the response is built from the record of the
\* earliest-issued call that returned its id, with no field of a later duplicate;
\* where the list is not reordered by score (the grouped handler) the venues stand
\* in the order of their first occurrence; and two requests with the same
\* parameters and the same answers get the same list however their calls
\* interleaved.
C15_MergeByIssueOrder ==
    /\ \A r \in Slots :
           merged(r) =>
               /\ \A i \in 1..Len(req[r].places) :
                      /\ occurrences(req[r].fetched, req[r].places[i].id) # {}
                      /\ req[r].places[i] =
                             IF req[r].variant = "cached"
                                 THEN stripScore(convert(earliest(req[r].fetched,
                                                                  req[r].places[i].id),
                                                         req[r].local.mode))
                             ELSE grouped_convert(earliest(req[r].fetched,
                                                           req[r].places[i].id))
               /\ req[r].variant = "grouped" =>
                      \A i, j \in 1..Len(req[r].places) :
                          i < j =>
                              \E x \in occurrences(req[r].fetched, req[r].places[i].id) :
                                  \A y \in occurrences(req[r].fetched, req[r].places[j].id) :
                                      before(x, y)
    /\ \A r, h \in Slots :
           (/\ merged(r) /\ merged(h)
            /\ req[r].variant = req[h].variant /\ req[r].q = req[h].q
            /\ req[r].fetched = req[h].fetched)
           => req[r].places = req[h].places

\* two requests with the same answers, an id returned by both calls, the calls
\* completed in issue order for one and in reverse order for the other
C15_ReversedCompletion ==
    \E r, h \in Slots :
        /\ merged(r) /\ merged(h)
        /\ req[r].variant = "cached" /\ req[h].variant = "cached" /\ req[r].q = req[h].q
        /\ req[r].fetched = <<Json("OK", <<PlaceNoId, PlaceA_later, PlaceC>>),
                              Json("OK", <<PlaceA, PlaceB>>)>>
        /\ req[h].fetched = req[r].fetched
        /\ req[r].order = <<1, 2>> /\ req[h].order = <<2, 1>>
        /\ req[r].places = req[h].places
        /\ \E i \in 1..Len(req[r].places) :
               req[r].places[i].id = Str(S_A) /\ req[r].places[i].rating = None


\* the entry under the key of request r was older than the TTL when r read it
readExpired(r) ==
    /\ keyed(r) /\ req[r].variant = "cached"
    /\ req[r].local.cacheKey \in DOMAIN cache
    /\ req[r].at - cache[req[r].local.cacheKey].ts >= CACHE_TTL_MS

\* C17: once a request that read a cache entry older than the TTL has finished,
\* in success or in an error response, that entry is no longer in the cache.
C17_ExpiredEntryEvicted ==
    \A r \in Slots : req[r].pc = "done" => ~readExpired(r)

\* a request that read an expired entry and ended in 500, the entry still stored
C17_ExpiredEntryRetained ==
    \E r \in Slots :
        /\ req[r].pc = "done" /\ req[r].status = 500
        /\ readExpired(r)
        /\ now - cache[req[r].local.cacheKey].ts >= CACHE_TTL_MS


\* request r ends this step in a success answered from its own provider calls
\* by the caching handler
writes(r) ==
    /\ req[r].pc = "waiting" /\ req'[r].pc = "done"
    /\ req'[r].variant = "cached" /\ req'[r].status = 200

\* C18: under every interleaving of in-flight requests with the same key, the
\* entry of a key is at every moment absent or one whole {timestamp, payload}
\* pair written by one request: a step changes it only by a request finishing
\* in success, which stores its completion time with exactly its own payload
\* over whatever an earlier request stored (last writer wins); no step removes
\* an entry or changes one in part.
C18_LastWriterWins ==
    [][/\ \A r \in Slots :
              writes(r) =>
                  /\ req[r].local.cacheKey \in DOMAIN cache'
                  /\ cache'[req[r].local.cacheKey] =
                         [ts |-> now, data |-> [places |-> req'[r].places]]
       /\ \A k \in DOMAIN cache : k \in DOMAIN cache'
       /\ \A k \in DOMAIN cache' :
              \/ k \in DOMAIN cache /\ cache'[k] = cache[k]
              \/ \E r \in Slots : writes(r) /\ req[r].local.cacheKey = k]_vars

\* two requests with one key, both arrived before either was answered, answered
\* with different lists; the entry is the pair of the one answered after the tick
C18_OverwrittenByLaterAnswer ==
    \E r, h \in Slots :
        /\ req[r].pc = "done" /\ req[r].status = 200 /\ ~req[r].hit
        /\ req[h].pc = "done" /\ req[h].status = 200 /\ ~req[h].hit
        /\ req[r].variant = "cached" /\ req[h].variant = "cached"
        /\ req[r].at = 0 /\ req[h].at = 0
        /\ req[r].local.cacheKey = req[h].local.cacheKey
        /\ req[r].places # req[h].places /\ req[r].places # <<>> /\ req[h].places # <<>>
        /\ req[h].local.cacheKey \in DOMAIN cache
        /\ cache[req[h].local.cacheKey] = [ts |-> TickMs, data |-> [places |-> req[h].places]]


\* every call of the request returned a failure value
allFailed(fetched) ==
    fetched # <<>> /\ \A i \in 1..Len(fetched) : failedAnswer(fetched[i])

\* the caching handler answers request r in this step
answers(r) ==
    /\ req[r].pc # "done" /\ req'[r].pc = "done"
    /\ req'[r].variant = "cached"

S_Sushi == <<"S","u","s","h","i">>

PlanCuisines ==
    { Undefined, Str(<<>>), Str(<<" ", ",", " ">>), Str(S_Maharashtrian), Str(S_Udupi),
      Str(S_Udupi_Chaat), Str(S_South_Indian \o <<",">> \o S_Street_food),
      Str(S_Sushi), Str(S_constructor) }

PlanPureVeg ==
    { Undefined, Str(S_0), Str(S_1), Str(S_true), Str(<<"T","R","U","E">>), Str(S_yes),
      Str(S_on), Str(<<"n","o">>) }

PlanModes ==
    { Undefined, Str(<<>>), Str(S_balanced), Str(S_famous), Str(<<"F","A","M","O","U","S">>),
      Str(<<"p","o","p","u","l","a","r">>) }

InitPlan ==
    /\ now = 0 /\ cache = <<>> /\ req = <<>> /\ env = <<>>
    /\ calc \in [phase : {"args"}, cuisines : PlanCuisines, pureVeg : PlanPureVeg,
                 discoveryMode : PlanModes]

\* the handler from its entry to the issue of its calls
PlanStep ==
    LET planned(d) ==
            [phase |-> "planned", cuisines |-> calc.cuisines, pureVeg |-> calc.pureVeg,
             discoveryMode |-> calc.discoveryMode, threw |-> d.threw,
             isPureVeg |-> d.isPureVeg, mode |-> d.mode, keywords |-> d.keywords,
             queries |-> IF d.threw THEN <<>> ELSE d.queries]
    IN  /\ calc.phase = "args"
        /\ calc' = planned(derive("cached", Query(calc.cuisines, calc.pureVeg,
                                                  calc.discoveryMode, Undefined)))
        /\ UNCHANGED <<now, cache, req, env>>

SpecPlan == InitPlan /\ [][PlanStep]_vars

\* a planned request without cuisines
noCuisines ==
    /\ calc.phase = "planned"
    /\ calc.cuisines \in {Undefined, Str(<<>>), Str(<<" ", ",", " ">>)}

\* C8: with no cuisines a cache-miss request issues exactly one provider call in
\* balanced mode and exactly two in famous mode, the second with a famous-biased
\* keyword; the first call carries no keyword unless the dietary flag is set, and
\* then it carries "pure veg restaurant".
C8_BroadPlan ==
    noCuisines =>
        /\ calc.keywords = <<>>
        /\ Len(calc.queries) = (IF calc.mode = "famous" THEN 2 ELSE 1)
        /\ calc.queries[1] = (IF calc.isPureVeg THEN Str(S_pure_veg_restaurant) ELSE Undefined)
        /\ calc.mode = "famous" =>
               /\ calc.queries[2].def
               /\ includes(calc.queries[2].s, S_famous)
               /\ calc.queries[2] = (IF calc.isPureVeg THEN Str(S_famous_pure_veg_restaurant)
                                     ELSE Str(S_famous_restaurant))

\* C8 as the claim has it: the single broad call carries no keyword, whatever
\* the dietary flag
C8_BroadCallWithoutKeyword ==
    noCuisines =>
        /\ Len(calc.queries) = (IF calc.mode = "famous" THEN 2 ELSE 1)
        /\ ~calc.queries[1].def
        /\ calc.mode = "famous" =>
               calc.queries[2].def /\ includes(calc.queries[2].s, S_famous)

\* no cuisines, the dietary flag set, famous mode: two calls planned
C8_FamousDietaryPlanned ==
    /\ noCuisines
    /\ calc.pureVeg = Str(S_1) /\ calc.isPureVeg
    /\ calc.discoveryMode = Str(S_famous) /\ calc.mode = "famous"
    /\ Len(calc.queries) = 2

\* a planned request for Maharashtrian with the dietary flag set
maharashtrianDietary ==
    /\ calc.phase = "planned"
    /\ calc.cuisines = Str(S_Maharashtrian)
    /\ calc.isPureVeg

\* C9: with cuisines = "Maharashtrian" and the dietary flag set, the keyword set
\* holds the umbrella token and its five sub-cuisine tokens, and every sub-query's
\* keyword is the token followed by " pure veg restaurant": it holds "pure veg"
\* and not "vegetarian".
C9_MaharashtrianDietary ==
    maharashtrianDietary =>
        /\ {S_Maharashtrian, S_Malvani, S_Kolhapuri, S_Puneri, S_Varhadi, S_Khandeshi}
               \subseteq {calc.keywords[i] : i \in 1..Len(calc.keywords)}
        /\ Len(calc.queries) = Len(calc.keywords)
        /\ \A i \in 1..Len(calc.queries) :
               /\ calc.queries[i] = Str(calc.keywords[i] \o S__pure_veg_restaurant)
               /\ includes(toLowerCase(calc.queries[i].s), S_pure_veg)
               /\ ~includes(toLowerCase(calc.queries[i].s), S_vegetarian)

\* C9 as the claim has it: every keyword holds both "pure veg" and "vegetarian"
C9_BothDietaryTokens ==
    maharashtrianDietary =>
        /\ {S_Maharashtrian, S_Malvani, S_Kolhapuri, S_Puneri, S_Varhadi, S_Khandeshi}
               \subseteq {calc.keywords[i] : i \in 1..Len(calc.keywords)}
        /\ \A i \in 1..Len(calc.queries) :
               /\ calc.queries[i].def
               /\ includes(toLowerCase(calc.queries[i].s), S_pure_veg)
               /\ includes(toLowerCase(calc.queries[i].s), S_vegetarian)

\* Maharashtrian with the dietary flag set: six sub-queries planned
C9_SixDietaryQueries ==
    /\ maharashtrianDietary
    /\ calc.pureVeg = Str(S_true)
    /\ Len(calc.queries) = 6



\* a request that reached the issue of its provider calls
issued == calc.phase = "planned" /\ ~calc.threw

\* the calls are those of the first keywords, one each, in expansion order
perKeyword ==
    \A i \in 1..Len(calc.queries) :
        /\ i <= Len(calc.keywords)
        /\ calc.queries[i].def
        /\ Len(calc.queries[i].s) > Len(calc.keywords[i])
        /\ SubSeq(calc.queries[i].s, 1, Len(calc.keywords[i])) = calc.keywords[i]

\* C16 as stated: a cache-miss request with k expanded keywords issues exactly
\* min(k, 8) provider calls, one per keyword, for the first 8 keywords in
\* expansion order, and never more than 8.
C16_MinOfKeywordsAndEight ==
    issued =>
        /\ Len(calc.queries) = IF Len(calc.keywords) < 8 THEN Len(calc.keywords) ELSE 8
        /\ perKeyword
        /\ Len(calc.queries) <= 8

\* C16, amended: a cache-miss request with k >= 1 expanded keywords issues
\* exactly min(k, 8) provider calls, one per keyword, for the first 8 keywords
\* in expansion order; with no keyword it issues its one or two broad calls;
\* no request issues more than 8 provider calls.
C16_BoundedFanOut ==
    issued =>
        /\ Len(calc.keywords) > 0 =>
               /\ Len(calc.queries) =
                      IF Len(calc.keywords) < 8 THEN Len(calc.keywords) ELSE 8
               /\ perKeyword
        /\ Len(calc.keywords) = 0 => Len(calc.queries) \in {1, 2}
        /\ Len(calc.queries) <= 8

\* two groups expanding to more than 8 keywords, 8 calls issued
C16_TruncatedToEight ==
    /\ issued
    /\ calc.cuisines = Str(S_South_Indian \o <<",">> \o S_Street_food)
    /\ Len(calc.keywords) > 8
    /\ Len(calc.queries) = 8

\* the tags of a planned request
tagsOf(cuisines) == rawCuisines(cuisines)

\* C13: every cuisine tag that is not one of the six registered group names is
\* added unchanged to the keyword set and the request proceeds to its provider
\* calls; no tag makes the expansion fail or expand to something else.
C13_UnknownTagsPassThrough ==
    calc.phase = "planned" =>
        /\ ~calc.threw
        /\ calc.queries # <<>>
        /\ \A i \in 1..Len(tagsOf(calc.cuisines)) :
               tagsOf(calc.cuisines)[i] \notin DOMAIN CUISINE_GROUPS =>
                   \E j \in 1..Len(calc.keywords) :
                       calc.keywords[j] = tagsOf(calc.cuisines)[i]
        /\ \A j \in 1..Len(calc.keywords) :
               \E i \in 1..Len(tagsOf(calc.cuisines)) :
                   LET c == tagsOf(calc.cuisines)[i]
                   IN  IF c \in DOMAIN CUISINE_GROUPS
                           THEN \E n \in 1..Len(CUISINE_GROUPS[c]) :
                                    CUISINE_GROUPS[c][n] = calc.keywords[j]
                       ELSE c = calc.keywords[j]

\* the tag "constructor" ends the request in the handler's catch, no call issued
C13_InheritedNameThrows ==
    /\ calc.phase = "planned"
    /\ calc.cuisines = Str(S_constructor)
    /\ calc.threw
    /\ calc.queries = <<>>

(***************************************************************************)
(* SpecKey: the cache keys of two requests that differ in their cuisines   *)
(* parameter only, each a spelling of a list of tags.                      *)
(***************************************************************************)
KeyTags ==
    { <<>>, <<S_Udupi>>, <<S_Udupi, S_Chaat>>, <<S_Chaat, S_Udupi>>,
      <<S_South_Indian, S_Chaat>>, <<S_Chaat, S_South_Indian>>,
      <<S_Sushi, S_Udupi>>, <<S_Udupi, S_Sushi>> }

KeySeparators == { <<",">>, <<" ", ",", " ">>, <<",", ",">> }

\* the cuisines parameter that lists tags with separator sep
RECURSIVE join(_, _)
join(tags, sep) ==
    IF tags = <<>> THEN <<>>
    ELSE IF Len(tags) = 1 THEN tags[1]
    ELSE tags[1] \o sep \o join(Tail(tags), sep)

InitKey ==
    /\ now = 0 /\ cache = <<>> /\ req = <<>> /\ env = <<>>
    /\ calc \in [phase : {"args"}, tagsA : KeyTags, sepA : KeySeparators,
                 tagsB : KeyTags, sepB : KeySeparators, pureVeg : {Undefined, Str(S_1)}]

\* both requests compute their cache key
KeyStep ==
    LET keys(a, b) ==
            [phase |-> "keys", tagsA |-> calc.tagsA, sepA |-> calc.sepA,
             tagsB |-> calc.tagsB, sepB |-> calc.sepB, pureVeg |-> calc.pureVeg,
             keyA |-> a.cacheKey, keyB |-> b.cacheKey]
        request(tags, sep) ==
            derive("cached", Query(Str(join(tags, sep)), calc.pureVeg, Undefined, Undefined))
    IN  /\ calc.phase = "args"
        /\ calc' = keys(request(calc.tagsA, calc.sepA), request(calc.tagsB, calc.sepB))
        /\ UNCHANGED <<now, cache, req, env>>

SpecKey == InitKey /\ [][KeyStep]_vars

\* the two lists hold the same tags, in whatever order
sameTags ==
    /\ Len(calc.tagsA) = Len(calc.tagsB)
    /\ {calc.tagsA[i] : i \in 1..Len(calc.tagsA)} = {calc.tagsB[i] : i \in 1..Len(calc.tagsB)}

MaxSorted == 3

\* a converted venue with score s (1e-9) at distance d
Scored(id, s, d) ==
    [id |-> Str(id), name |-> Str(id), area |-> <<>>, rating |-> None,
     userRatingsTotal |-> None, types |-> <<>>, distanceKm |-> d, _score |-> s]

\* venues whose neighbouring scores are within 1e-9, the higher score farther away,
\* one venue without coordinates and one that scores far above the others
SortVenues ==
    { Scored(S_A, 5000, Some(1200000)), Scored(S_B, 5001, Some(3400000)),
      Scored(S_C, 5002, Some(5600000)), Scored(<<"D">>, 5002, None),
      Scored(<<"E">>, 9000, Some(4000000)) }

\* the lists of at most MaxSorted different venues
SortInputs ==
    {<<>>} \cup
    UNION {{s \in [1..n -> SortVenues] : \A i, j \in 1..n : i # j => s[i] # s[j]} :
               n \in 1..MaxSorted}

InitSort ==
    /\ now = 0 /\ cache = <<>> /\ req = <<>> /\ env = <<>>
    /\ calc \in [phase : {"args"}, places : SortInputs, max : 1..MaxSorted]

\* places.sort(compare), then the cap
SortStep ==
    /\ calc.phase = "args"
    /\ \E sorted \in sortOutcomes(calc.places) :
           calc' = [phase |-> "sorted", places |-> calc.places, max |-> calc.max,
                    sorted |-> sorted, out |-> capped(sorted, Whole(calc.max))]
    /\ UNCHANGED <<now, cache, req, env>>

SpecSort == InitSort /\ [][SortStep]_vars

\* the positions i < j of the list are in the claimed order
inOrder(sorted, i, j) ==
    IF sorted[i]._score - sorted[j]._score > ScoreEpsilon
           \/ sorted[j]._score - sorted[i]._score > ScoreEpsilon
    THEN sorted[i]._score > sorted[j]._score
    ELSE distanceOr999(sorted[i]) <= distanceOr999(sorted[j])

\* near-ties do not chain: scores within 1e-9 of a common score are within 1e-9
noChain(places) ==
    \A i, j, k \in 1..Len(places) :
        (/\ places[i]._score - places[j]._score \in -ScoreEpsilon..ScoreEpsilon
         /\ places[j]._score - places[k]._score \in -ScoreEpsilon..ScoreEpsilon)
        => places[i]._score - places[k]._score \in -ScoreEpsilon..ScoreEpsilon

\* C11 as the claim has it: the surviving venues are returned in descending score
\* order, two venues whose scores differ by less than 1e-9 with the nearer one
\* first (no distance counts as 999), and the response is the first max venues of
\* that order, for chains of venues with neighbouring scores within 1e-9 too.
C11_ScoreThenDistance ==
    calc.phase = "sorted" =>
        /\ \A i, j \in 1..Len(calc.sorted) : i < j => inOrder(calc.sorted, i, j)
        /\ calc.out = [i \in 1..(IF calc.max < Len(calc.sorted) THEN calc.max
                                 ELSE Len(calc.sorted)) |-> stripScore(calc.sorted[i])]

\* C11: the response is the first max venues of a reordering of the surviving
\* venues; when near-ties do not chain, that order is descending by score, two
\* venues whose scores differ by at most 1e-9 with the nearer one first.
C11_OrderedWithoutChains ==
    calc.phase = "sorted" =>
        /\ Len(calc.sorted) = Len(calc.places)
        /\ {calc.sorted[i] : i \in 1..Len(calc.sorted)} =
               {calc.places[i] : i \in 1..Len(calc.places)}
        /\ calc.out = [i \in 1..(IF calc.max < Len(calc.sorted) THEN calc.max
                                 ELSE Len(calc.sorted)) |-> stripScore(calc.sorted[i])]
        /\ noChain(calc.places) =>
               \A i, j \in 1..Len(calc.sorted) : i < j => inOrder(calc.sorted, i, j)

\* a near-tie at 3.4 km and 1.2 km and a higher score, sorted and cut to two
C11_NearTieByDistance ==
    /\ calc.phase = "sorted"
    /\ calc.places = <<Scored(S_B, 5001, Some(3400000)), Scored(S_A, 5000, Some(1200000)),
                       Scored(<<"E">>, 9000, Some(4000000))>>
    /\ calc.max = 2
    /\ calc.out = <<stripScore(Scored(<<"E">>, 9000, Some(4000000))),
                    stripScore(Scored(S_A, 5000, Some(1200000)))>>

=============================================================================
